---- MODULE Spec2Model ----
(***************************************************************************)
(* Model of the Instagram post converter (SocialMediaConverter, RAGChain)  *)
(* of src/unnamed/part_000: construction of the converter from a corpus,   *)
(* and conversions, each a call of convert_instagram_post that downloads   *)
(* the image, streams the RAG chain (retriever, prompt, llm, parser),      *)
(* joins the fragments and appends one record to conversion_history.       *)
(* Conversions of several callers may interleave at the granularity of     *)
(* the chain's stages and of the streamed fragments.                       *)
(***************************************************************************)
EXTENDS Integers, Sequences, FiniteSets, TLC

\* ---------------------------------------------------------------- bounds
\* Number of conversions (calls of convert_instagram_post) in a run.
MaxConv == 2
\* Largest number of documents the corpus directory yields.
MaxDocs == 2
\* Largest number of pages of a corpus whose index is queried.
MaxPages == 6
\* Longest text of a document handed to the chunker, and largest chunk size.
MaxLen == 5
MaxSize == 3
\* Clients (browser sessions) of the web application.
MaxClients == 2
\* Largest number of user documents in the user store.
MaxUsers == 1

\* ------------------------------------------------------- program constants
\* The retriever's k when search_kwargs gives none.
RetrieverK_Default == 4
\* search_kwargs={"k": 5}
RetrieverK == 5

\* RecursiveCharacterTextSplitter(chunk_size=1000, chunk_overlap=50, ...)
ChunkSize == 1000
ChunkOverlap == 50

Convs == 1..MaxConv
None == "None"
NoImage == [url |-> None, max_size |-> None, format |-> None]
NoOutcome == [kind |-> "none"]
NoError == [kind |-> "none", msg |-> ""]
NoPrompt == [context |-> None]
NoRequest == [caption |-> None, media_url |-> None, target |-> None]
Clients == 1..MaxClients
\* The file has not been written.
NotWritten == <<"not written">>
\* A request without a JSON body to report.
NoBody ==
    [kind |-> "none", keys |-> {}, caption |-> <<>>, targetPlatform |-> "",
     hasImage |-> FALSE]
\* No request has been answered yet.
NoResponse ==
    [user |-> 0, route |-> "none", request |-> NoBody, status |-> 0,
     location |-> None, flash |-> None, store |-> "none", api |-> FALSE,
     basic |-> FALSE, rag |-> FALSE, builds |-> 0, body |-> <<>>]

\* The posts a caller may pass (caption, media_url) and the target platforms.
Posts ==
    { [caption |-> "x", media_url |-> None],
      [caption |-> "y", media_url |-> "u"] }
Targets == {"Facebook", "Thread"}

\* The streams the generation call may deliver: each is the sequence of the
\* fragments of one response, and text is a sequence of characters.
Responses == { <<<<"a">>, <<"b", "c">>>>, <<<<"d">>>> }
\* The fragments that may follow the fragments fs in a stream.
NextFragments(fs) ==
    { r[Len(fs) + 1] : r \in { r \in Responses :
                                 /\ Len(r) > Len(fs)
                                 /\ SubSeq(r, 1, Len(fs)) = fs } }

\* Exceptions that the collaborators raise; kind is the exception's class.
RetrievalErrors == { [kind |-> "RetrievalError", msg |-> "embed"] }
GenerationErrors == { [kind |-> "GenerationError", msg |-> "quota"] }
ImageError == [kind |-> "OSError", msg |-> "truncated"]
Interrupt == [kind |-> "KeyboardInterrupt", msg |-> ""]
LoadErrorEmpty == [kind |-> "ValueError", msg |-> "No documents found"]
LoadErrorNoDir == [kind |-> "FileNotFoundError", msg |-> "Directory not found"]
TokenError == [kind |-> "ValueError", msg |-> "INSTAGRAM_ACCESS_TOKEN not found"]
IndexError == [kind |-> "EmbeddingError", msg |-> "embed"]

VARIABLES
    \* construction of the converter
    cpc,                 \* position in SocialMediaConverter.__init__
    attrs,               \* the attributes of self assigned so far
    documents,           \* self.documents
    splits,              \* self.splits
    vectorstore,         \* self.vectorstore: the index entries, in chunk order
    conversion_history,  \* self.conversion_history
    converter,           \* TRUE once the caller holds the constructed instance
    ctorError,           \* the exception __init__ raised, if any
    indexBuilds,         \* number of calls of create_vectorstore
    text_splitter,       \* chunk_size and chunk_overlap of the text splitter
    \* conversions
    pc,                  \* stage of each conversion
    request,             \* the call's arguments: post and target_platform
    original_image,      \* the downloaded image, or None
    docs,                \* the chunks the retriever returned
    prompt,              \* the composed prompt
    fragments,           \* the fragments join has collected so far
    streamed,            \* number of fragments the stream has delivered
    outcome,             \* what reached the caller: a return value or an error
    raised,              \* the exception raised inside the call, if any
    failedAt,            \* the stage the conversion was in when it failed
    genCalls,            \* calls of the generation client, per conversion
    \* observation
    histBefore,          \* conversion_history when the call in progress started
    doneOrder,           \* the conversions in the order they completed
    \* the sinks of the history
    history_file,        \* the lines of conversion_history.txt, once written
    conversions_table,   \* the rows of the table conversions
    \* the web application
    users,               \* mongo.db.users: the user documents, in insertion order
    session,             \* the user_id each client's session holds, 0 for none
    response,            \* the latest response, what its handler did, and the
                         \* user_id the session of its request held
    loginMatched         \* per client: the latest login matched, no logout since

ctorVars ==
    <<cpc, attrs, documents, splits, vectorstore, converter, ctorError,
      indexBuilds, text_splitter>>
sinkVars == <<history_file, conversions_table>>
webVars == <<users, session, response, loginMatched>>
convVars ==
    <<pc, request, original_image, docs, prompt, fragments, streamed, outcome,
      raised, failedAt, genCalls, histBefore, doneOrder>>
vars == <<ctorVars, conversion_history, convVars, sinkVars, webVars>>

\* ---------------------------------------------------------- pure functions

\* DirectoryLoader(...).load(): one Document per page the directory yields.
LoadedDocuments(n) ==
    [i \in 1..n |-> [page_content |-> <<ToString(i)>>, source |-> i]]

\* ------------------------------------------------------------- the chunker
\* Text is a sequence of characters. RecursiveCharacterTextSplitter with its
\* default separators, keep_separator and strip_whitespace.
Separators == << <<"\n", "\n">>, <<"\n">>, <<" ">>, <<>> >>
Whitespace == {" ", "\n"}

RECURSIVE LStrip(_)
LStrip(text) ==
    IF text # <<>> /\ text[1] \in Whitespace THEN LStrip(Tail(text)) ELSE text
RECURSIVE RStrip(_)
RStrip(text) ==
    IF text # <<>> /\ text[Len(text)] \in Whitespace
    THEN RStrip(SubSeq(text, 1, Len(text) - 1))
    ELSE text
\* str.strip
Strip(text) == RStrip(LStrip(text))

\* sub occurs in text at position i (from 1).
OccursAt(text, sub, i) ==
    /\ i >= 1
    /\ i + Len(sub) - 1 <= Len(text)
    /\ SubSeq(text, i, i + Len(sub) - 1) = sub
\* str.find(sub, start) with positions from 0: the first position at or after
\* start where sub occurs, or -1.
Find(text, sub, start) ==
    LET at == {i \in (start + 1)..(Len(text) + 1) : OccursAt(text, sub, i)}
    IN  IF at = {} THEN 0 - 1
        ELSE (CHOOSE i \in at : \A j \in at : i <= j) - 1

\* The pieces of text between the occurrences of sep, found left to right.
RECURSIVE Pieces(_, _)
Pieces(text, sep) ==
    LET i == Find(text, sep, 0)
    IN  IF i < 0 THEN <<text>>
        ELSE <<SubSeq(text, 1, i)>>
                 \o Pieces(SubSeq(text, i + Len(sep) + 1, Len(text)), sep)

\* _split_text_with_regex with keep_separator: the separator stays at the
\* start of the piece that follows it; the empty separator splits the text
\* into its characters; empty pieces are dropped.
split_text_with_regex(text, sep) ==
    IF sep = <<>> THEN [i \in 1..Len(text) |-> <<text[i]>>]
    ELSE LET p == Pieces(text, sep)
             kept == [i \in 1..Len(p) |-> IF i = 1 THEN p[1] ELSE sep \o p[i]]
         IN  SelectSeq(kept, LAMBDA x : x # <<>>)

RECURSIVE Concat(_)
Concat(parts) ==
    IF parts = <<>> THEN <<>> ELSE parts[1] \o Concat(Tail(parts))

\* _join_docs: the splits joined and stripped; no chunk when nothing is left.
join_docs(current_doc) ==
    LET text == Strip(Concat(current_doc))
    IN  IF text = <<>> THEN <<>> ELSE <<text>>

\* A window that is emptied after every chunk: nothing is kept as overlap.
RECURSIVE PopOverlap_None(_, _, _, _, _)
PopOverlap_None(current_doc, total, len, size, overlap) ==
    IF total > 0
    THEN PopOverlap_None(Tail(current_doc), total - Len(current_doc[1]), len,
                         size, overlap)
    ELSE [current_doc |-> current_doc, total |-> total]

\* The while loop of _merge_splits: splits leave the front of the window
\* while it is longer than the overlap, or too long to take the next split.
RECURSIVE PopOverlap(_, _, _, _, _)
PopOverlap(current_doc, total, len, size, overlap) ==
    IF total > overlap \/ (total + len > size /\ total > 0)
    THEN PopOverlap(Tail(current_doc), total - Len(current_doc[1]), len,
                    size, overlap)
    ELSE [current_doc |-> current_doc, total |-> total]

\* _merge_splits from split i on, with the window current_doc of length total
\* and the chunks emitted so far (the separator is kept in the splits,
\* so the splits are joined with the empty string).
RECURSIVE MergeFrom(_, _, _, _, _, _, _)
MergeFrom(parts, i, current_doc, total, emitted, size, overlap) ==
    IF i > Len(parts) THEN emitted \o join_docs(current_doc)
    ELSE LET d == parts[i]
             len == Len(d)
         IN  IF total + len > size /\ current_doc # <<>>
             THEN LET w == PopOverlap(current_doc, total, len, size, overlap)
                  IN  MergeFrom(parts, i + 1, Append(w.current_doc, d),
                                w.total + len, emitted \o join_docs(current_doc),
                                size, overlap)
             ELSE MergeFrom(parts, i + 1, Append(current_doc, d), total + len,
                            emitted, size, overlap)
merge_splits(parts, size, overlap) ==
    MergeFrom(parts, 1, <<>>, 0, <<>>, size, overlap)

\* The position in separators of the separator _split_text uses for text:
\* the first that is empty or occurs in text, else the last.
SeparatorFor(text, separators) ==
    LET usable == {i \in DOMAIN separators :
                     separators[i] = <<>> \/ Find(text, separators[i], 0) >= 0}
    IN  IF usable = {} THEN Len(separators)
        ELSE CHOOSE i \in usable : \A j \in usable : i <= j

\* RecursiveCharacterTextSplitter._split_text
RECURSIVE SplitText(_, _, _, _)
RECURSIVE SplitFrom(_, _, _, _, _, _, _)
SplitFrom(parts, i, good, final, separators, size, overlap) ==
    LET merged == IF good = <<>> THEN <<>>
                  ELSE merge_splits(good, size, overlap)
    IN  IF i > Len(parts) THEN final \o merged
        ELSE IF Len(parts[i]) < size
        THEN SplitFrom(parts, i + 1, Append(good, parts[i]), final, separators,
                       size, overlap)
        ELSE SplitFrom(parts, i + 1, <<>>,
                       final \o merged
                           \o (IF separators = <<>> THEN <<parts[i]>>
                               ELSE SplitText(parts[i], separators, size, overlap)),
                       separators, size, overlap)
SplitText(text, separators, size, overlap) ==
    LET s == SeparatorFor(text, separators)
        separator == separators[s]
        new_separators ==
            IF separator = <<>> \/ Find(text, separator, 0) < 0 THEN <<>>
            ELSE SubSeq(separators, s + 1, Len(separators))
    IN  SplitFrom(split_text_with_regex(text, separator), 1, <<>>, <<>>,
                  new_separators, size, overlap)

\* TextSplitter.create_documents for one document, with add_start_index: each
\* chunk is looked for from where the chunk before it started, plus its
\* length, less the overlap.
RECURSIVE ChunksFrom(_, _, _, _, _, _)
ChunksFrom(doc, chunks, i, index, previous_chunk_len, overlap) ==
    IF i > Len(chunks) THEN <<>>
    ELSE LET offset == index + previous_chunk_len - overlap
             at == Find(doc.page_content, chunks[i],
                        IF offset < 0 THEN 0 ELSE offset)
         IN  << [page_content |-> chunks[i], source |-> doc.source,
                 start_index |-> at] >>
                 \o ChunksFrom(doc, chunks, i + 1, at, Len(chunks[i]), overlap)

RECURSIVE SplitAll(_, _, _)
SplitAll(ds, size, overlap) ==
    IF ds = <<>> THEN <<>>
    ELSE ChunksFrom(ds[1], SplitText(ds[1].page_content, Separators, size, overlap),
                    1, 0, 0, overlap)
             \o SplitAll(Tail(ds), size, overlap)

\* SocialMediaConverter.split_documents: the chunks of every document, in the
\* order of the documents.
split_documents(ds) ==
    SplitAll(ds, text_splitter.chunk_size, text_splitter.chunk_overlap)

\* Chroma.from_documents: one entry per chunk, in chunk order.
create_vectorstore(chunks) == chunks

\* The embedding function (OpenAIEmbeddings), a fixed function of the text: a
\* text is embedded by its first character, a digit d at d and the letters x
\* and y at 1 and 2. The retriever is handed the chain's input, whose text
\* starts with the caption.
Digits == <<"1", "2", "3", "4", "5", "6", "7", "8", "9">>
EmbedText(text) ==
    IF text = <<>> THEN 0
    ELSE IF \E d \in DOMAIN Digits : Digits[d] = text[1]
         THEN CHOOSE d \in DOMAIN Digits : Digits[d] = text[1]
         ELSE 0
EmbedCaption(caption) == IF caption = "x" THEN 1 ELSE 2
Abs(i) == IF i < 0 THEN 0 - i ELSE i
\* Similarity of a query and the entry at position i of the index: the
\* negated distance of their embeddings.
Score(index, query, i) ==
    0 - Abs(EmbedCaption(query.input_post) - EmbedText(index[i].page_content))

\* A search that, among entries at the same distance, prefers the one added
\* last.
Best_LastOnTie(index, query, S) ==
    CHOOSE i \in S :
        \A j \in S :
            \/ Score(index, query, i) > Score(index, query, j)
            \/ Score(index, query, i) = Score(index, query, j) /\ i >= j

\* The position of the best entry among the positions in S. The search orders
\* its results by the pair (distance, label) and labels are given in the
\* order the entries were added: highest score, ties to the earliest chunk.
Best(index, query, S) ==
    CHOOSE i \in S :
        \A j \in S :
            \/ Score(index, query, i) > Score(index, query, j)
            \/ Score(index, query, i) = Score(index, query, j) /\ i <= j

RECURSIVE Ranked(_, _, _, _)
Ranked(index, query, S, k) ==
    IF k = 0 \/ S = {} THEN <<>>
    ELSE LET b == Best(index, query, S)
         IN  <<b>> \o Ranked(index, query, S \ {b}, k - 1)

\* A retriever that hands out the first k entries of the index as they are.
Retrieve_Unranked(index, query) ==
    SubSeq(index, 1, IF Len(index) < RetrieverK THEN Len(index) ELSE RetrieverK)

\* vectorstore.as_retriever(search_type="similarity", search_kwargs={"k": 5}):
\* the k entries most similar to the query, best first; an index of fewer
\* than k entries yields them all.
Retrieve(index, query) ==
    LET order == Ranked(index, query, DOMAIN index, RetrieverK)
    IN  [i \in DOMAIN order |-> index[order[i]]]

Reverse(seq) == [i \in 1..Len(seq) |-> seq[Len(seq) + 1 - i]]

\* str.join: the parts in order, sep between consecutive parts.
RECURSIVE JoinWith(_, _)
JoinWith(sep, parts) ==
    IF parts = <<>> THEN <<>>
    ELSE IF Len(parts) = 1 THEN parts[1]
    ELSE parts[1] \o sep \o JoinWith(sep, Tail(parts))

\* A join that puts a single newline between the chunks.
format_docs_OneNewline(ds) ==
    JoinWith(<<"\n">>, [i \in DOMAIN ds |-> ds[i].page_content])

\* RAGChain._format_docs
format_docs(ds) ==
    JoinWith(<<"\n", "\n">>, [i \in DOMAIN ds |-> ds[i].page_content])

\* The dictionary convert_post hands to the chain.
ChainInput(input_post, source_platform, target_platform, image_included) ==
    [input_post |-> input_post,
     source_platform |-> source_platform,
     target_platform |-> target_platform,
     image_included |-> IF image_included THEN "Yes" ELSE "No"]

\* RunnablePassthrough(): the value it is invoked with, which in a dictionary
\* of runnables is the whole input of the chain.
RunnablePassthrough(input) == input

\* What the template's format puts in a slot for a value that is the input
\* dictionary: the text str gives of it, as a sequence of pieces of text.
FormatSlot(value) ==
    << "{'input_post': '", value.input_post,
       "', 'source_platform': '", value.source_platform,
       "', 'target_platform': '", value.target_platform,
       "', 'image_included': '", value.image_included, "'}" >>

\* The first step of the chain and the prompt: every RunnablePassthrough()
\* yields the chain's whole input, which the template formats into the slot,
\* and the context slot is the retriever's documents formatted.
ComposePrompt(retrieved, input) ==
    [context |-> format_docs(retrieved),
     input_post |-> FormatSlot(RunnablePassthrough(input)),
     source_platform |-> FormatSlot(RunnablePassthrough(input)),
     target_platform |-> FormatSlot(RunnablePassthrough(input)),
     image_included |-> FormatSlot(RunnablePassthrough(input))]

\* A join that collects each fragment in front of the ones before it.
JoinFragments_Reversed(fs) == JoinWith(<<>>, Reverse(fs))

\* "".join(self.rag_chain.stream(...))
JoinFragments(fs) == JoinWith(<<>>, fs)

\* InstagramAPI.download_image, when the download succeeds.
Image(url) == [url |-> url, max_size |-> None, format |-> "JPEG"]

\* ImageProcessor.convert_to_format: an image of another format is pasted into
\* a new RGB image, which has no format of its own.
convert_to_format(image, format) ==
    IF image.format # format THEN [image EXCEPT !.format = None] ELSE image

\* SocialMediaConverter.process_image
process_image(image, target_platform) ==
    IF target_platform = "Facebook"
    THEN convert_to_format([image EXCEPT !.max_size = <<2048, 2048>>], "PNG")
    ELSE IF target_platform = "LinkedIn"
    THEN convert_to_format([image EXCEPT !.max_size = <<1200, 627>>], "PNG")
    ELSE image

\* The tuple convert_instagram_post appends to conversion_history.
Record(input_post, target_platform, converted_post, image_url) ==
    <<input_post, "Instagram", target_platform, converted_post, image_url>>

\* An except clause that answers every failure with an empty default text.
Propagate_Default(e) == [kind |-> "return", text |-> <<>>, image |-> NoImage]

\* An exception raised inside convert_post or convert_instagram_post meets no
\* except clause on its way to the caller.
Propagate(e) == [kind |-> "raise", error |-> e]

\* ------------------------------------------------------------ construction

\* No conversion has been called.
NoConversions ==
    /\ pc = [c \in Convs |-> "Idle"]
    /\ request = [c \in Convs |-> NoRequest]
    /\ original_image = [c \in Convs |-> NoImage]
    /\ docs = [c \in Convs |-> <<>>]
    /\ prompt = [c \in Convs |-> NoPrompt]
    /\ fragments = [c \in Convs |-> <<>>]
    /\ streamed = [c \in Convs |-> 0]
    /\ outcome = [c \in Convs |-> NoOutcome]
    /\ raised = [c \in Convs |-> NoError]
    /\ failedAt = [c \in Convs |-> None]
    /\ genCalls = [c \in Convs |-> 0]
    /\ histBefore = [c \in Convs |-> <<>>]
    /\ doneOrder = <<>>

\* Nothing has been saved or uploaded.
NoSinks ==
    /\ history_file = NotWritten
    /\ conversions_table = <<>>

\* The web application has served no request: no user, no session.
NoRequests ==
    /\ users = <<>>
    /\ session = [c \in Clients |-> 0]
    /\ response = NoResponse
    /\ loginMatched = [c \in Clients |-> FALSE]

Init ==
    /\ cpc = "new"
    /\ attrs = {}
    /\ documents = <<>>
    /\ splits = <<>>
    /\ vectorstore = <<>>
    /\ conversion_history = <<>>
    /\ converter = FALSE
    /\ ctorError = NoError
    /\ indexBuilds = 0
    /\ text_splitter = [chunk_size |-> ChunkSize, chunk_overlap |-> ChunkOverlap]
    /\ NoConversions
    /\ NoSinks
    /\ NoRequests

\* __init__ raises e: the instance is never bound by the caller.
CtorFail(e) ==
    /\ cpc' = "failed"
    /\ ctorError' = e

\* Lines 138-140: load_env, load_documents.
LoadDocuments ==
    /\ cpc = "new"
    /\ \/ \E n \in 0..MaxDocs :
            /\ documents' = LoadedDocuments(n)
            /\ attrs' = attrs \cup {"documents"}
            /\ cpc' = "loaded"
            /\ UNCHANGED ctorError
       \/ /\ CtorFail(LoadErrorNoDir)
          /\ UNCHANGED <<documents, attrs>>
    /\ UNCHANGED <<splits, vectorstore, converter, indexBuilds,
                   conversion_history, convVars, text_splitter, sinkVars, webVars>>

\* Construction without the check of lines 141-142.
CheckDocuments_Missing ==
    /\ cpc = "loaded"
    /\ cpc' = "checked"
    /\ UNCHANGED <<attrs, documents, splits, vectorstore, converter, ctorError,
                   indexBuilds, conversion_history, convVars, text_splitter,
                   sinkVars, webVars>>

\* Lines 141-142: if not self.documents: raise ValueError.
CheckDocuments ==
    /\ cpc = "loaded"
    /\ IF documents = <<>>
       THEN CtorFail(LoadErrorEmpty)
       ELSE cpc' = "checked" /\ UNCHANGED ctorError
    /\ UNCHANGED <<attrs, documents, splits, vectorstore, converter,
                   indexBuilds, conversion_history, convVars, text_splitter,
                   sinkVars, webVars>>

\* Line 143: self.splits = self.split_documents(self.documents).
SplitDocuments ==
    /\ cpc = "checked"
    /\ splits' = split_documents(documents)
    /\ attrs' = attrs \cup {"splits"}
    /\ cpc' = "split"
    /\ UNCHANGED <<documents, vectorstore, converter, ctorError, indexBuilds,
                   conversion_history, convVars, text_splitter, sinkVars, webVars>>

\* Line 145: self.vectorstore = self.create_vectorstore(self.splits); the
\* embedding call may raise.
CreateVectorstore ==
    /\ cpc = "split"
    /\ indexBuilds' = indexBuilds + 1
    /\ \/ /\ vectorstore' = create_vectorstore(splits)
          /\ attrs' = attrs \cup {"vectorstore"}
          /\ cpc' = "indexed"
          /\ UNCHANGED ctorError
       \/ /\ CtorFail(IndexError)
          /\ UNCHANGED <<vectorstore, attrs>>
    /\ UNCHANGED <<documents, splits, converter, conversion_history, convVars,
                   text_splitter, sinkVars, webVars>>

\* Lines 146-148: the chain, the empty history, the image processor.
CreateChain ==
    /\ cpc = "indexed"
    /\ conversion_history' = <<>>
    /\ attrs' = attrs \cup {"rag_chain", "conversion_history", "image_processor"}
    /\ cpc' = "chained"
    /\ UNCHANGED <<documents, splits, vectorstore, converter, ctorError,
                   indexBuilds, convVars, text_splitter, sinkVars, webVars>>

\* Lines 150-153: the access token; then __init__ returns the instance.
CheckToken ==
    /\ cpc = "chained"
    /\ \E token \in BOOLEAN :
          IF token
          THEN /\ cpc' = "constructed"
               /\ converter' = TRUE
               /\ attrs' = attrs \cup {"instagram_api"}
               /\ UNCHANGED ctorError
          ELSE /\ CtorFail(TokenError)
               /\ UNCHANGED <<converter, attrs>>
    /\ UNCHANGED <<documents, splits, vectorstore, indexBuilds,
                   conversion_history, convVars, text_splitter, sinkVars, webVars>>

\* ------------------------------------------------------------- conversions

\* A chain whose llm is fed the input directly: no retriever, no prompt.
StageAfter_NoRetrieval(stage) ==
    CASE stage = "Idle" -> "Generating"
      [] stage = "Retrieving" -> "Composing"
      [] stage = "Composing" -> "Generating"
      [] stage = "Generating" -> "Done"

\* The stages of the chain of _create_rag_chain, in the order it runs them:
\* the retriever and the passthroughs, then the prompt, then the llm and the
\* parser; convert_instagram_post appends and returns after the stream ends.
StageAfter(stage) ==
    CASE stage = "Idle" -> "Retrieving"
      [] stage = "Retrieving" -> "Composing"
      [] stage = "Composing" -> "Generating"
      [] stage = "Generating" -> "Done"

Active == {"Retrieving", "Composing", "Generating"}

\* The call of conversion c has been made and has not ended.
InFlight(c) == (pc[c] = "Idle" /\ request[c] # NoRequest) \/ pc[c] \in Active

\* The arguments kept in one place shared by all calls: those of the latest.
CallArgs_Shared(c) ==
    LET called == {d \in Convs : request[d] # NoRequest}
    IN  request[CHOOSE d \in called : \A x \in called : x <= d]

\* The arguments of the call, held in the call's own locals.
CallArgs(c) == request[c]

\* An input that says an image is included whenever the post names one.
InputOf_ByUrl(c) ==
    ChainInput(CallArgs(c).caption, "Instagram", CallArgs(c).target,
               CallArgs(c).media_url # None)

\* The input convert_post builds for conversion c.
InputOf(c) ==
    ChainInput(CallArgs(c).caption, "Instagram", CallArgs(c).target,
               original_image[c] # NoImage)

\* A failed call that still appends what it has.
HistoryOnError_Partial(h, partial) == Append(h, partial)

\* conversion_history after a call that raised: line 203 is never reached.
HistoryOnError(h, partial) == h

\* A record inserted at the front of the list.
HistoryOnSuccess_Front(h, rec) == <<rec>> \o h

\* conversion_history after line 203.
HistoryOnSuccess(h, rec) == Append(h, rec)

\* An exception e leaves convert_instagram_post while conversion c is in a
\* stage: the frames and their locals are unwound and the caller gets e.
Raise(c, e) ==
    /\ pc' = [pc EXCEPT ![c] = "Failed"]
    /\ failedAt' = [failedAt EXCEPT ![c] = pc[c]]
    /\ outcome' = [outcome EXCEPT ![c] = Propagate(e)]
    /\ conversion_history' =
          HistoryOnError(conversion_history,
                         Record(CallArgs(c).caption, CallArgs(c).target,
                                JoinFragments(fragments[c]), CallArgs(c).media_url))
    /\ request' = [request EXCEPT ![c] = NoRequest]
    /\ original_image' = [original_image EXCEPT ![c] = NoImage]
    /\ docs' = [docs EXCEPT ![c] = <<>>]
    /\ prompt' = [prompt EXCEPT ![c] = NoPrompt]
    /\ fragments' = [fragments EXCEPT ![c] = <<>>]
    /\ histBefore' = [histBefore EXCEPT ![c] = <<>>]
    /\ UNCHANGED <<streamed, genCalls, doneOrder, ctorVars, sinkVars, webVars>>

\* Lines 189-191: the caller invokes convert_instagram_post(post, target) on
\* the converter it holds; caption and media_url are read from the post.
\* Conversions are numbered in the order they are called.
Call(c) ==
    /\ converter
    /\ pc[c] = "Idle"
    /\ request[c] = NoRequest
    /\ c > 1 => (pc[c - 1] # "Idle" \/ request[c - 1] # NoRequest)
    /\ \E post \in Posts, target \in Targets :
          request' = [request EXCEPT ![c] =
                         [caption |-> post.caption, media_url |-> post.media_url,
                          target |-> target]]
    /\ histBefore' = [histBefore EXCEPT ![c] = conversion_history]
    /\ UNCHANGED <<pc, original_image, docs, prompt, fragments, streamed, outcome,
                   raised, failedAt, genCalls, doneOrder, conversion_history,
                   ctorVars, sinkVars, webVars>>

\* What each step of a conversion waits for: the stage the conversion itself
\* has reached and, while it generates, what its own stream has delivered.
CanStartChain(c) == pc[c] = "Idle" /\ request[c] # NoRequest
CanRetrieve(c) == pc[c] = "Retrieving"
CanCompose(c) == pc[c] = "Composing"
CanStream(c) == pc[c] = "Generating" /\ NextFragments(fragments[c]) # {}
CanFinish(c) == pc[c] = "Generating" /\ fragments[c] \in Responses

\* Lines 193-197: the image is downloaded when the post has a media_url
\* (download_image returns None when the download fails), and convert_post
\* starts the chain's stream.
StartChain(c) ==
    /\ CanStartChain(c)
    /\ \E image \in {NoImage, Image(CallArgs(c).media_url)} :
          /\ CallArgs(c).media_url = None => image = NoImage
          /\ original_image' = [original_image EXCEPT ![c] = image]
    /\ pc' = [pc EXCEPT ![c] = StageAfter("Idle")]
    /\ UNCHANGED <<request, docs, prompt, fragments, streamed, outcome, raised,
                   failedAt, genCalls, histBefore, doneOrder,
                   conversion_history, ctorVars, sinkVars, webVars>>

\* The retriever returns the documents of the index nearest the chain's input.
RetrieveDocs(c) ==
    /\ CanRetrieve(c)
    /\ docs' = [docs EXCEPT ![c] = Retrieve(vectorstore, InputOf(c))]
    /\ pc' = [pc EXCEPT ![c] = StageAfter("Retrieving")]
    /\ UNCHANGED <<request, original_image, prompt, fragments, streamed, outcome,
                   raised, failedAt, genCalls, histBefore, doneOrder,
                   conversion_history, ctorVars, sinkVars, webVars>>

\* The embedding of the query or the search of the index raises.
RetrieveFail(c) ==
    /\ CanRetrieve(c)
    /\ \E e \in RetrievalErrors :
          /\ raised' = [raised EXCEPT ![c] = e]
          /\ Raise(c, e)

\* The prompt is formatted and handed to the llm: the generation call.
Compose(c) ==
    /\ CanCompose(c)
    /\ prompt' = [prompt EXCEPT ![c] = ComposePrompt(docs[c], InputOf(c))]
    /\ genCalls' = [genCalls EXCEPT ![c] = @ + 1]
    /\ pc' = [pc EXCEPT ![c] = StageAfter("Composing")]
    /\ UNCHANGED <<request, original_image, docs, fragments, streamed, outcome,
                   raised, failedAt, histBefore, doneOrder, conversion_history,
                   ctorVars, sinkVars, webVars>>

\* The stream yields one more fragment, which join collects.
StreamFragment(c) ==
    /\ CanStream(c)
    /\ \E f \in NextFragments(fragments[c]) :
          fragments' = [fragments EXCEPT ![c] = Append(@, f)]
    /\ streamed' = [streamed EXCEPT ![c] = @ + 1]
    /\ UNCHANGED <<pc, request, original_image, docs, prompt, outcome, raised,
                   failedAt, genCalls, histBefore, doneOrder,
                   conversion_history, ctorVars, sinkVars, webVars>>

\* A handler that ends conversion c with the fragments received so far, as if
\* the stream had ended: the text is returned and recorded.
ReturnPartial(c) ==
    /\ pc' = [pc EXCEPT ![c] = "Done"]
    /\ outcome' = [outcome EXCEPT ![c] =
                     [kind |-> "return", text |-> JoinFragments(fragments[c]),
                      image |-> NoImage]]
    /\ conversion_history' =
          Append(conversion_history,
                 Record(request[c].caption, request[c].target,
                        JoinFragments(fragments[c]), request[c].media_url))
    /\ doneOrder' = Append(doneOrder, c)
    /\ UNCHANGED <<request, original_image, docs, prompt, fragments, streamed,
                   failedAt, genCalls, histBefore, ctorVars, sinkVars, webVars>>

OnGenerationError_Partial(c, e) == ReturnPartial(c)

\* A handler that calls the generation client again after a failure.
OnGenerationError_Retry(c, e) ==
    /\ genCalls' = [genCalls EXCEPT ![c] = @ + 1]
    /\ fragments' = [fragments EXCEPT ![c] = <<>>]
    /\ UNCHANGED <<pc, request, original_image, docs, prompt, streamed, outcome,
                   failedAt, histBefore, doneOrder, conversion_history, ctorVars,
                   sinkVars, webVars>>

\* The generation call raised e (before or after fragments arrived): no except
\* clause in convert_post or convert_instagram_post, so no second call.
OnGenerationError(c, e) == Raise(c, e)

StreamFail(c) ==
    /\ pc[c] = "Generating"
    /\ \E e \in GenerationErrors :
          /\ raised' = [raised EXCEPT ![c] = e]
          /\ OnGenerationError(c, e)

\* Lines 129 and 199-204: the stream ends, join returns the text, the image is
\* processed, the record is appended and the pair is returned.
Finish(c) ==
    /\ CanFinish(c)
    /\ LET converted_post == JoinFragments(fragments[c])
           processed_image ==
               IF original_image[c] # NoImage
               THEN process_image(original_image[c], CallArgs(c).target)
               ELSE NoImage
       IN  /\ conversion_history' =
                 HistoryOnSuccess(conversion_history,
                                  Record(CallArgs(c).caption, CallArgs(c).target,
                                         converted_post, CallArgs(c).media_url))
           /\ outcome' = [outcome EXCEPT ![c] =
                            [kind |-> "return", text |-> converted_post,
                             image |-> processed_image]]
    /\ pc' = [pc EXCEPT ![c] = StageAfter("Generating")]
    /\ histBefore' = [histBefore EXCEPT ![c] = <<>>]
    /\ doneOrder' = Append(doneOrder, c)
    /\ UNCHANGED <<request, original_image, docs, prompt, fragments, streamed,
                   raised, failedAt, genCalls, ctorVars, sinkVars, webVars>>

\* Lines 199-201: the stream ended but resizing the downloaded image raises
\* (thumbnail loads the image data, which Image.open had not read).
ProcessImageFail(c) ==
    /\ CanFinish(c)
    /\ original_image[c] # NoImage
    /\ CallArgs(c).target \in {"Facebook", "LinkedIn"}
    /\ raised' = [raised EXCEPT ![c] = ImageError]
    /\ Raise(c, ImageError)

\* A cancellation that is caught and answered with the fragments so far.
OnCancel_Partial(c) == ReturnPartial(c)

\* The caller interrupts the call (KeyboardInterrupt at the console): the
\* exception is raised at the point the call has reached and unwinds it;
\* except Exception in download_image does not catch it.
OnCancel(c) == Raise(c, Interrupt)

Cancel(c) ==
    /\ InFlight(c)
    /\ raised' = [raised EXCEPT ![c] = Interrupt]
    /\ OnCancel(c)

Next ==
    \/ LoadDocuments
    \/ CheckDocuments
    \/ SplitDocuments
    \/ CreateVectorstore
    \/ CreateChain
    \/ CheckToken
    \/ \E c \in Convs : Call(c)
    \/ \E c \in Convs : StartChain(c)
    \/ \E c \in Convs : RetrieveDocs(c)
    \/ \E c \in Convs : RetrieveFail(c)
    \/ \E c \in Convs : Compose(c)
    \/ \E c \in Convs : StreamFragment(c)
    \/ \E c \in Convs : StreamFail(c)
    \/ \E c \in Convs : Finish(c)
    \/ \E c \in Convs : ProcessImageFail(c)
    \/ \E c \in Convs : Cancel(c)

Spec == Init /\ [][Next]_vars

\* ------------------------------------------------- the chunker, any document
Chars == {"a", "b", " ", "\n"}
Texts == UNION { [1..n -> Chars] : n \in 0..MaxLen }
\* The chunk sizes and overlaps the splitter accepts and the bounds allow.
SplitterConfigs ==
    { [chunk_size |-> size, chunk_overlap |-> overlap] :
        size \in 1..MaxSize, overlap \in 0..MaxSize }

\* The state of __init__ at line 143 for a corpus of one document and a
\* splitter of any size and overlap, the overlap less than the size.
ChunkerInit ==
    /\ \E text \in Texts :
          documents = << [page_content |-> text, source |-> 1] >>
    /\ \E config \in SplitterConfigs :
          /\ config.chunk_overlap < config.chunk_size
          /\ text_splitter = config
    /\ cpc = "checked"
    /\ attrs = {"documents"}
    /\ splits = <<>>
    /\ vectorstore = <<>>
    /\ conversion_history = <<>>
    /\ converter = FALSE
    /\ ctorError = NoError
    /\ indexBuilds = 0
    /\ NoConversions
    /\ NoSinks
    /\ NoRequests

ChunkerNext == SplitDocuments

ChunkerSpec == ChunkerInit /\ [][ChunkerNext]_vars

\* ------------------------------------------------- the sinks of the history
\* The lines save_conversion_history writes for one record.
RecordLines(rec) ==
    << <<"Source", rec[2], rec[1]>>, <<"Target", rec[3], rec[4]>> >>
        \o (IF rec[5] # None THEN << <<"Image", rec[5]>> >> ELSE <<>>)
        \o << <<>> >>

\* The lines of the file for the records of h, in the order of the loop.
RECURSIVE FileOf(_)
FileOf(h) ==
    IF h = <<>> THEN <<>> ELSE RecordLines(h[1]) \o FileOf(Tail(h))

\* The rows upload_to_database inserts after the rows of the table: one row
\* per record, in the order of the loop, the id counting on.
RowsAfter(table, h) ==
    table \o [i \in DOMAIN h |->
                 [id |-> Len(table) + i, input_post |-> h[i][1],
                  source_platform |-> h[i][2], target_platform |-> h[i][3],
                  converted_post |-> h[i][4], image_url |-> h[i][5]]]

\* A writer that takes the records off the list as it writes them.
HistoryAfterWrite_Drained(h) == <<>>

\* conversion_history after the for loop of save_conversion_history or of
\* upload_to_database: the loops only read the list.
HistoryAfterWrite(h) == h

\* Lines 267-269: the loop over the posts has ended, so no conversion is in
\* progress, and the history is written to the file, opened with mode w.
SaveConversionHistory ==
    /\ converter
    /\ \A c \in Convs : ~InFlight(c)
    /\ history_file = NotWritten
    /\ history_file' = FileOf(conversion_history)
    /\ conversion_history' = HistoryAfterWrite(conversion_history)
    /\ UNCHANGED <<conversions_table, ctorVars, convVars, webVars>>

\* Line 269: after the file, the table (an empty history inserts no row).
UploadToDatabase ==
    /\ history_file # NotWritten
    /\ conversions_table = <<>>
    /\ conversion_history # <<>>
    /\ conversions_table' = RowsAfter(conversions_table, conversion_history)
    /\ conversion_history' = HistoryAfterWrite(conversion_history)
    /\ UNCHANGED <<history_file, ctorVars, convVars, webVars>>

\* The script: the converter is built and the posts are converted, then the
\* history is saved and uploaded and the script ends.
MainNext ==
    \/ history_file = NotWritten /\ Next
    \/ SaveConversionHistory
    \/ UploadToDatabase

MainSpec == Init /\ [][MainNext]_vars

\* ------------------------------------------------- one conversion, any index
\* The texts a page of the corpus may hold; a page may hold no text.
PageTexts == {<<>>, <<"1">>, <<"2">>, <<"3">>}
Corpora ==
    UNION { [1..n -> PageTexts] : n \in 1..MaxPages }
AllAttrs ==
    {"documents", "splits", "vectorstore", "rag_chain", "conversion_history",
     "image_processor", "instagram_api"}

\* The state __init__ leaves for a corpus of up to MaxPages pages: the pages
\* are split and indexed, and the caller holds the converter.
IndexInit ==
    /\ \E pages \in Corpora :
          documents = [i \in DOMAIN pages |->
                          [page_content |-> pages[i], source |-> i]]
    /\ text_splitter = [chunk_size |-> ChunkSize, chunk_overlap |-> ChunkOverlap]
    /\ splits = split_documents(documents)
    /\ vectorstore = create_vectorstore(splits)
    /\ cpc = "constructed"
    /\ attrs = AllAttrs
    /\ conversion_history = <<>>
    /\ converter = TRUE
    /\ ctorError = NoError
    /\ indexBuilds = 1
    /\ NoConversions
    /\ NoSinks
    /\ NoRequests

\* Conversion 1 up to the generation call.
IndexNext ==
    \/ Call(1)
    \/ StartChain(1)
    \/ RetrieveDocs(1)
    \/ Compose(1)

IndexSpec == IndexInit /\ [][IndexNext]_vars

\* ------------------------------------------------------ the web application
nonWebVars == <<ctorVars, conversion_history, convVars, sinkVars>>

\* The e-mail addresses and passwords the forms may carry.
Emails == {"a@x", "b@x"}
Passwords == {"p", "q"}

\* werkzeug.security: the stored hash is not the password, and a password
\* checks against the hash made from it only.
generate_password_hash(password) == <<"pbkdf2:sha256", password>>
check_password_hash_Any(pwhash, password) == TRUE
check_password_hash(pwhash, password) ==
    pwhash = generate_password_hash(password)

\* str(bool)
Str(b) == IF b THEN "True" ELSE "False"
\* text[:n]
Prefix(text, n) == SubSeq(text, 1, IF Len(text) < n THEN Len(text) ELSE n)

\* 'user_id' in session
Authenticated_Always(c) == TRUE
Authenticated(c) == session[c] # 0

\* mongo.db.users.find_one({"_id": ...}) found a document.
HasUser(id) == id \in DOMAIN users
\* user and user.get('access_token')
InstagramLinked(id) == HasUser(id) /\ users[id].access_token # None
\* user and user.get('thread_user_id')
ThreadLinked(id) == HasUser(id) /\ users[id].thread_user_id # None
\* mongo.db.users.find_one({"email": email}): the documents that match.
WithEmail(email) == { i \in DOMAIN users : users[i].email = email }
First(S) == CHOOSE i \in S : \A j \in S : i <= j

\* The response of a handler that converts nothing.
Reply(c, route, status, location, flash, store, api, body) ==
    [user |-> session[c], route |-> route, request |-> NoBody, status |-> status,
     location |-> location, flash |-> flash, store |-> store, api |-> api,
     basic |-> FALSE, rag |-> FALSE, builds |-> 0, body |-> body]
\* render_template(page)
Render(c, route, flash, store, page) ==
    Reply(c, route, 200, None, flash, store, FALSE, <<page>>)
\* redirect(url_for(location))
Redirect(c, route, location, flash, store, api) ==
    Reply(c, route, 302, location, flash, store, api, <<>>)
\* jsonify({"error": message}), status
JsonError(c, route, status, store, api, message) ==
    Reply(c, route, status, None, None, store, api, <<"error", message>>)
\* jsonify(...) of a result
Json(c, route, store, api, body) ==
    Reply(c, route, 200, None, None, store, api, body)

\* A handler that changes neither the user store nor the session.
Answer(r) ==
    /\ response' = r
    /\ UNCHANGED <<users, session, loginMatched, nonWebVars>>

\* index, instagram_converter, content_conversion, content_management
PublicPages ==
    { <<"index", "index.html">>,
      <<"instagram_converter", "index6.html">>,
      <<"content_conversion", "content_conversion.html">>,
      <<"content_management", "content_management.html">> }
Page(c) ==
    \E page \in PublicPages :
        Answer(Render(c, page[1], None, "none", page[2]))

\* statistics
Statistics(c) ==
    IF ~Authenticated(c)
    THEN Answer(Redirect(c, "statistics", "login", "login required",
                         "none", FALSE))
    ELSE IF ~InstagramLinked(session[c])
    THEN Answer(Redirect(c, "statistics", "my_page", "link instagram",
                         "read", FALSE))
    ELSE Answer(Render(c, "statistics", None, "read", "statistics.html"))

\* The forms register may receive: at most one field is empty.
RegisterForms ==
    { f \in [username : {"", "u"}, email : Emails \cup {""},
             password : {"", "p"}, confirm_password : {"", "p", "q"}] :
        Cardinality({ k \in {"username", "email", "password",
                             "confirm_password"} : f[k] = "" }) <= 1 }
NewUser(form) ==
    [username |-> form.username, email |-> form.email,
     password |-> generate_password_hash(form.password),
     instagram_id |-> None, access_token |-> None, thread_user_id |-> None]

\* register
Register(c) ==
    \/ Answer(Render(c, "register", None, "none", "register.html"))
    \/ \E form \in RegisterForms :
          IF \/ form.username = "" \/ form.email = ""
             \/ form.password = "" \/ form.confirm_password = ""
          THEN Answer(Render(c, "register", "fill in every field", "none",
                             "register.html"))
          ELSE IF form.password # form.confirm_password
          THEN Answer(Render(c, "register", "passwords differ", "none",
                             "register.html"))
          ELSE IF WithEmail(form.email) # {}
          THEN Answer(Render(c, "register", "email in use", "read",
                             "register.html"))
          ELSE \/ /\ Len(users) < MaxUsers
                  /\ users' = Append(users, NewUser(form))
                  /\ response' = Redirect(c, "register", "login",
                                          "registered", "write", FALSE)
                  /\ UNCHANGED <<session, loginMatched, nonWebVars>>
               \/ Answer(Render(c, "register", "registration failed",
                                "write", "register.html"))

\* login
Login(c) ==
    \/ Answer(Render(c, "login", None, "none", "login.html"))
    \/ \E email \in Emails, password \in Passwords :
          IF /\ WithEmail(email) # {}
             /\ check_password_hash(users[First(WithEmail(email))].password,
                                    password)
          THEN /\ session' = [session EXCEPT ![c] = First(WithEmail(email))]
               /\ loginMatched' =
                     [loginMatched EXCEPT ![c] =
                        users[First(WithEmail(email))].password
                            = generate_password_hash(password)]
               /\ response' = Redirect(c, "login", "my_page", "logged in",
                                       "read", FALSE)
               /\ UNCHANGED <<users, nonWebVars>>
          ELSE Answer(Render(c, "login", "wrong email or password", "read",
                             "login.html"))

\* logout
Logout(c) ==
    /\ session' = [session EXCEPT ![c] = 0]
    /\ loginMatched' = [loginMatched EXCEPT ![c] = FALSE]
    /\ response' = Redirect(c, "logout", "index", "logged out", "none", FALSE)
    /\ UNCHANGED <<users, nonWebVars>>

\* my_page
MyPage(c) ==
    IF ~Authenticated(c)
    THEN Answer(Redirect(c, "my_page", "login", "login required", "none",
                         FALSE))
    ELSE Answer(Reply(c, "my_page", 200, None, None, "read", FALSE,
                      <<"my_page.html", Str(InstagramLinked(session[c])),
                        Str(ThreadLinked(session[c]))>>))

\* instagram_auth
InstagramAuth(c) ==
    IF ~Authenticated(c)
    THEN Answer(Redirect(c, "instagram_auth", "login", "login required",
                         "none", FALSE))
    ELSE Answer(Redirect(c, "instagram_auth",
                         "https://api.instagram.com/oauth/authorize", None,
                         "none", FALSE))

\* instagram_callback
InstagramCallback(c) ==
    IF ~Authenticated(c)
    THEN Answer(Redirect(c, "instagram_callback", "login", None, "none",
                         FALSE))
    ELSE \/ Answer(Redirect(c, "instagram_callback", "my_page",
                            "authorization failed", "none", FALSE))
         \/ Answer(Redirect(c, "instagram_callback", "my_page",
                            "no access token", "none", TRUE))
         \/ /\ HasUser(session[c])
            /\ users' = [users EXCEPT
                           ![session[c]].instagram_id = "instagram user",
                           ![session[c]].access_token = "token"]
            /\ response' = Redirect(c, "instagram_callback", "my_page",
                                    "linked", "write", TRUE)
            /\ UNCHANGED <<session, loginMatched, nonWebVars>>
         \/ Answer(Redirect(c, "instagram_callback", "my_page",
                            "error linking", "write", TRUE))

\* The answer of the routes that call the Instagram API for the session's
\* user: 401 without a session, 400 without a linked account.
InstagramRoute(c, route, outcomes) ==
    IF ~Authenticated(c)
    THEN Answer(JsonError(c, route, 401, "none", FALSE, "Not authenticated"))
    ELSE IF ~InstagramLinked(session[c])
    THEN Answer(JsonError(c, route, 400, "read", FALSE,
                          "Instagram account not linked"))
    ELSE \E result \in outcomes :
           Answer(IF result = "ok"
                  THEN Json(c, route, "read", TRUE, <<route>>)
                  ELSE IF result = "expired"
                  THEN JsonError(c, route, 401, "read", TRUE,
                                 "Instagram link expired")
                  ELSE JsonError(c, route, 500, "read", TRUE,
                                 "Failed"))

\* refresh_instagram_token
RefreshInstagramToken(c) ==
    InstagramRoute(c, "refresh_instagram_token", {"ok", "error"})
\* fetch_posts
FetchPosts(c) == InstagramRoute(c, "fetch_posts", {"ok", "expired", "error"})
\* fetch_instagram_stats
FetchInstagramStats(c) ==
    InstagramRoute(c, "fetch_instagram_stats", {"ok", "error"})

\* link_thread_account
LinkThreadAccount(c) ==
    IF ~Authenticated(c)
    THEN Answer(JsonError(c, "link_thread_account", 401, "none", FALSE,
                          "Not authenticated"))
    ELSE \/ Answer(JsonError(c, "link_thread_account", 400, "none", FALSE,
                             "Thread user ID is required"))
         \/ \E thread_user_id \in {"thread user"} :
              IF /\ HasUser(session[c])
                 /\ users[session[c]].thread_user_id # thread_user_id
              THEN /\ users' = [users EXCEPT ![session[c]].thread_user_id =
                                                 thread_user_id]
                   /\ response' = Json(c, "link_thread_account", "write",
                                       FALSE, <<"success">>)
                   /\ UNCHANGED <<session, loginMatched, nonWebVars>>
              ELSE Answer(JsonError(c, "link_thread_account", 400, "write",
                                    FALSE, "No changes were made"))
         \/ Answer(JsonError(c, "link_thread_account", 500, "write", FALSE,
                             "Failed to link Thread account"))

\* check_thread_account
CheckThreadAccount(c) ==
    IF ~Authenticated(c)
    THEN Answer(JsonError(c, "check_thread_account", 401, "none", FALSE,
                          "Not authenticated"))
    ELSE IF ~HasUser(session[c])
    THEN Answer(JsonError(c, "check_thread_account", 404, "read", FALSE,
                          "User not found"))
    ELSE Answer(Json(c, "check_thread_account", "read", FALSE,
                     <<"linked", Str(ThreadLinked(session[c]))>>))

\* The answer of the routes that call the Thread API for the session's user:
\* 401 without a session, 400 without a linked account or without content.
ThreadRoute(c, route, contents) ==
    IF ~Authenticated(c)
    THEN Answer(JsonError(c, route, 401, "none", FALSE, "Not authenticated"))
    ELSE IF ~ThreadLinked(session[c])
    THEN Answer(JsonError(c, route, 400, "read", FALSE,
                          "Thread account not linked"))
    ELSE \E content \in contents :
           IF content = None
           THEN Answer(JsonError(c, route, 400, "read", FALSE,
                                 "Content is required"))
           ELSE \E ok \in BOOLEAN :
                  Answer(IF ok THEN Json(c, route, "read", TRUE, <<route>>)
                         ELSE JsonError(c, route, 500, "read", TRUE,
                                        "Failed"))

\* fetch_thread_stats
FetchThreadStats(c) == ThreadRoute(c, "fetch_thread_stats", {"stats"})
\* fetch_thread_posts
FetchThreadPosts(c) == ThreadRoute(c, "fetch_thread_posts", {"threads"})
\* upload_to_thread
UploadToThread(c) == ThreadRoute(c, "upload_to_thread", {None, "content"})

\* The bodies /convert may receive. A JSON object is given by its keys and
\* their values; the value of an absent key is the default of data.get, and
\* hasImage, when given, is true.
ConvertObjects ==
    { b \in [kind : {"object"},
             keys : SUBSET {"caption", "targetPlatform", "hasImage"},
             caption : {<<>>, <<"h", "i">>},
             targetPlatform : {"", "Thread"},
             hasImage : BOOLEAN] :
        /\ "caption" \notin b.keys => b.caption = <<>>
        /\ "targetPlatform" \notin b.keys => b.targetPlatform = ""
        /\ "hasImage" \in b.keys <=> b.hasImage }
\* No usable JSON: a body that does not parse, a body not declared as JSON,
\* the JSON null, and a JSON list.
ConvertBodies ==
    ConvertObjects \cup
        { [NoBody EXCEPT !.kind = k] :
            k \in {"malformed", "notjson", "null", "list"} }
\* not data
NoData(b) == b.kind = "null" \/ (b.kind = "object" /\ b.keys = {})
\* not caption or not target_platform
MissingFields(b) == b.caption = <<>> \/ b.targetPlatform = ""

\* convert_post
convert_post(caption, target_platform, has_image) ==
    LET converted_post ==
          IF target_platform = "Twitter"
          THEN (IF Len(caption) > 200
                THEN <<"Check out my latest Instagram post!\n\n">>
                        \o Prefix(caption, 200) \o <<"...">>
                ELSE caption) \o <<"\n\n#Instagram #Social">>
          ELSE IF target_platform = "LinkedIn"
          THEN <<"I just shared a new post on Instagram!\n\n">> \o caption
                 \o <<"\n\nFollow me on Instagram for more updates!">>
                 \o <<"\n\n#SocialMedia #Professional #Instagram">>
          ELSE IF target_platform = "Facebook"
          THEN <<"New Instagram Post Alert!\n\n">> \o caption
                 \o <<"\n\nHead over to my Instagram profile">>
          ELSE IF target_platform = "Thread"
          THEN <<"Continuing from my recent Instagram post...\n\n">>
                 \o Prefix(caption, 100) \o <<"...\n\nThoughts?">>
          ELSE IF target_platform = "YouTube Community"
          THEN <<"Instagram Update\n\n">> \o Prefix(caption, 150)
                 \o <<"...\n\nCheck out my Instagram">>
          ELSE caption
    IN  IF has_image
        THEN converted_post \o <<"\n\n[Image from Instagram]">>
        ELSE converted_post

\* What chain.run may return.
EnhancedPosts == { <<"e">> }

\* The response of /convert to body b.
Converted(c, b, status, basic, rag, builds, body) ==
    [user |-> session[c], route |-> "convert", request |-> b, status |-> status,
     location |-> None, flash |-> None, store |-> "none", api |-> rag,
     basic |-> basic, rag |-> rag, builds |-> builds, body |-> body]

\* RAGConverter() and generate_enhanced_post: the constructor raises without
\* an API key; create_vector_store builds a vector store from the post, and
\* the embedding call may raise; chain.run returns the post or raises.
Generate(c, b) ==
    LET basic == convert_post(b.caption, b.targetPlatform, b.hasImage)
    IN  \/ Answer(Converted(c, b, 500, TRUE, FALSE, 0,
                   <<"error", "OPENAI_API_KEY not found in .env file">>))
        \/ Answer(Converted(c, b, 500, TRUE, TRUE, 0,
                   <<"error", "embedding failed">>))
        \/ Answer(Converted(c, b, 500, TRUE, TRUE, 1,
                   <<"error", "generation failed">>))
        \/ \E enhanced_post \in EnhancedPosts :
              Answer(Converted(c, b, 200, TRUE, TRUE, 1,
                     <<"basicConvertedPost">> \o basic
                        \o <<"ragConvertedPost">> \o enhanced_post))

\* convert
Convert(c) ==
    \E b \in ConvertBodies :
        IF b.kind = "malformed"
        THEN Answer(Converted(c, b, 500, FALSE, FALSE, 0,
                    <<"error", "400 Bad Request">>))
        ELSE IF b.kind = "notjson"
        THEN \/ Answer(Converted(c, b, 500, FALSE, FALSE, 0,
                       <<"error", "415 Unsupported Media Type">>))
             \/ Answer(Converted(c, b, 400, FALSE, FALSE, 0,
                       <<"error", "No JSON data received">>))
        ELSE IF NoData(b)
        THEN Answer(Converted(c, b, 400, FALSE, FALSE, 0,
                    <<"error", "No JSON data received">>))
        ELSE IF b.kind = "list"
        THEN Answer(Converted(c, b, 500, FALSE, FALSE, 0,
                    <<"error", "'list' object has no attribute 'get'">>))
        ELSE IF MissingFields(b)
        THEN Answer(Converted(c, b, 400, FALSE, FALSE, 0,
                    <<"error", "Missing required fields">>))
        ELSE Generate(c, b)

WebNext ==
    \E c \in Clients :
        \/ Page(c)
        \/ Statistics(c)
        \/ Register(c)
        \/ Login(c)
        \/ Logout(c)
        \/ MyPage(c)
        \/ InstagramAuth(c)
        \/ InstagramCallback(c)
        \/ RefreshInstagramToken(c)
        \/ FetchPosts(c)
        \/ FetchInstagramStats(c)
        \/ Convert(c)
        \/ LinkThreadAccount(c)
        \/ CheckThreadAccount(c)
        \/ FetchThreadStats(c)
        \/ FetchThreadPosts(c)
        \/ UploadToThread(c)

WebSpec == Init /\ [][WebNext]_vars

\* ------------------------------------------------------------------ claims

Range(seq) == {seq[i] : i \in DOMAIN seq}
Started(c) == pc[c] # "Idle" \/ request[c] # NoRequest
Succeeded == {c \in Convs : pc[c] = "Done"}

\* The concatenation of a sequence of fragments, built from its last fragment.
RECURSIVE Flatten(_)
Flatten(fs) ==
    IF fs = <<>> THEN <<>>
    ELSE Flatten(SubSeq(fs, 1, Len(fs) - 1)) \o fs[Len(fs)]

\* The record a completed conversion c owes the history: its own request's
\* fields and the text its caller received.
RecordOf(c) ==
    <<request[c].caption, "Instagram", request[c].target, outcome[c].text,
      request[c].media_url>>

\* The history is what it was when conversion c was called, followed only by
\* the records of other conversions, which completed since.
HistorySince(c) ==
    LET k == Len(histBefore[c])
        n == Len(conversion_history)
    IN  /\ k <= n
        /\ SubSeq(conversion_history, 1, k) = histBefore[c]
        /\ \A i \in (k + 1)..n :
              /\ i <= Len(doneOrder)
              /\ doneOrder[i] # c
              /\ conversion_history[i] = RecordOf(doneOrder[i])

\* C1: the step in which a conversion fails with a retrieval or generation
\* error leaves the history unchanged, and the history then is the one the
\* call started with (followed only by the records of other conversions that
\* completed meanwhile): the failed conversion appended nothing.
C1_FailureLeavesHistory ==
    [][\A c \in Convs :
          (InFlight(c) /\ raised[c] = NoError
             /\ raised'[c].kind \in {"RetrievalError", "GenerationError"})
          => /\ conversion_history' = conversion_history
             /\ HistorySince(c)]_vars

C1_Witness ==
    \E c \in Convs :
        /\ pc[c] = "Failed"
        /\ raised[c].kind = "GenerationError"
        /\ streamed[c] > 0
        /\ conversion_history # <<>>

\* C2: whenever a stage of a conversion raised an error, the conversion ends
\* Failed and what its caller receives is that very error, raised and of the
\* same kind; a caller that receives a normal return value had no error.
C2_ErrorReachesCallerUnchanged ==
    \A c \in Convs :
        /\ raised[c] # NoError =>
              /\ pc[c] = "Failed"
              /\ outcome[c].kind = "raise"
              /\ outcome[c].error = raised[c]
        /\ outcome[c].kind = "return" => raised[c] = NoError
        /\ pc[c] = "Failed" => raised[c] # NoError

C2_Witness ==
    \E c, d \in Convs :
        /\ outcome[c].kind = "raise" /\ outcome[c].error.kind = "RetrievalError"
        /\ outcome[d].kind = "raise" /\ outcome[d].error.kind = "GenerationError"

\* C3: the history holds exactly one record per completed conversion, in the
\* order of completion, each holding that conversion's request fields and the
\* text returned to its caller.
C3_OneRecordPerSuccess ==
    /\ Len(conversion_history) = Len(doneOrder)
    /\ \A i \in 1..Len(doneOrder) :
          /\ pc[doneOrder[i]] = "Done"
          /\ i <= Len(conversion_history)
          /\ conversion_history[i] = RecordOf(doneOrder[i])
    /\ \A c \in Succeeded :
          /\ outcome[c].kind = "return"
          /\ Cardinality({i \in 1..Len(doneOrder) : doneOrder[i] = c}) = 1

C3_Witness ==
    /\ Len(conversion_history) = 2
    /\ conversion_history[1] # conversion_history[2]
    /\ Cardinality(Succeeded) = 2

StageOrder ==
    { <<"Idle", "Retrieving">>, <<"Retrieving", "Composing">>,
      <<"Composing", "Generating">>, <<"Generating", "Done">> }
NonTerminal == {"Idle", "Retrieving", "Composing", "Generating"}
C4_Step ==
    /\ \A c \in Convs :
          \/ pc'[c] = pc[c]
          \/ <<pc[c], pc'[c]>> \in StageOrder
          \/ pc[c] \in NonTerminal /\ pc'[c] = "Failed"
    /\ conversion_history' # conversion_history =>
          \E c \in Convs : pc[c] = "Generating" /\ pc'[c] = "Done"
C4_Composed ==
    \A c \in Convs :
        pc[c] = "Generating" =>
            /\ prompt[c] # NoPrompt
            /\ prompt[c].context = format_docs(docs[c])
            /\ genCalls[c] = 1

\* C4: a conversion's stage changes only along Idle, Retrieving, Composing,
\* Generating, Done, or from a non-terminal stage to Failed; Done and Failed
\* are never left; the history changes only in a step into Done; and while a
\* conversion generates, its documents were retrieved and its prompt composed.
C4_StageOrder == [](C4_Composed) /\ [][C4_Step]_vars

C4_Witness ==
    \E c, d \in Convs :
        /\ pc[c] = "Done"
        /\ pc[d] = "Failed" /\ failedAt[d] = "Composing"

\* C5: the text a completed conversion returns is the concatenation, in the
\* order received, of every fragment the stream delivered.
C5_StreamReconstruction ==
    \A c \in Succeeded :
        /\ Len(fragments[c]) = streamed[c]
        /\ outcome[c].text = Flatten(fragments[c])

C5_Witness ==
    \E c \in Succeeded : streamed[c] = 2 /\ Len(outcome[c].text) = 3

\* C6: a conversion whose stream failed ends Failed with the error and is not
\* among the completed ones; a conversion returns text only when its stream
\* ended normally; and the history has one record per such conversion only.
C6_NoPartialResult ==
    /\ \A c \in Convs :
          /\ raised[c].kind = "GenerationError" =>
                /\ pc[c] = "Failed"
                /\ outcome[c].kind = "raise"
                /\ c \notin Range(doneOrder)
          /\ outcome[c].kind = "return" =>
                /\ raised[c] = NoError
                /\ fragments[c] \in Responses
    /\ Len(conversion_history) =
          Cardinality({c \in Convs : outcome[c].kind = "return"
                                      /\ fragments[c] \in Responses})

C6_Witness ==
    \E c \in Convs :
        /\ raised[c].kind = "GenerationError"
        /\ failedAt[c] = "Generating"
        /\ streamed[c] >= 1

RECURSIVE SumCalls(_)
SumCalls(S) ==
    IF S = {} THEN 0
    ELSE LET c == CHOOSE x \in S : TRUE
         IN  genCalls[c] + SumCalls(S \ {c})

\* C7: every conversion has issued at most one generation call, also after
\* the call failed, so the calls never outnumber the conversions started.
C7_SingleGenerationCall ==
    /\ \A c \in Convs : genCalls[c] <= 1 /\ (genCalls[c] = 1 => Started(c))
    /\ SumCalls(Convs) <= Cardinality({c \in Convs : Started(c)})

C7_Witness ==
    \E c \in Convs :
        /\ pc[c] = "Failed"
        /\ raised[c].kind = "GenerationError"
        /\ genCalls[c] = 1

PlaceOf(c) == CHOOSE i \in 1..Len(doneOrder) : doneOrder[i] = c
OwnRecord(c) ==
    <<request[c].caption, "Instagram", request[c].target,
      Flatten(fragments[c]), request[c].media_url>>
CanAdvance(c) ==
    \/ CanStartChain(c)
    \/ CanRetrieve(c)
    \/ CanCompose(c)
    \/ CanStream(c)
    \/ CanFinish(c)

\* C8: two conversions that both completed, called with different requests,
\* each have exactly one record, at the place of their completion, holding
\* their own request's fields and the concatenation of their own fragments;
\* the history has no other records than those of completed conversions; and
\* a conversion in flight can always take its next step (start the chain,
\* retrieve, compose, receive a fragment or finish), whatever the other
\* conversions do.
C8_ConcurrentConversions ==
    /\ \A c, d \in Succeeded :
          (c # d /\ request[c] # request[d]) =>
              /\ Cardinality({i \in 1..Len(doneOrder) : doneOrder[i] \in {c, d}}) = 2
              /\ Len(conversion_history) >= 2
              /\ conversion_history[PlaceOf(c)] = OwnRecord(c)
              /\ conversion_history[PlaceOf(d)] = OwnRecord(d)
              /\ Cardinality({i \in 1..Len(conversion_history) :
                                conversion_history[i] \in {OwnRecord(c), OwnRecord(d)}})
                    = Cardinality({x \in Succeeded :
                                     OwnRecord(x) \in {OwnRecord(c), OwnRecord(d)}})
    /\ Len(conversion_history) = Cardinality(Succeeded)
    /\ \A c \in Convs : InFlight(c) => CanAdvance(c)

\* Conversion 1 was called first and completed last: the two overlapped.
C8_Witness ==
    /\ Len(doneOrder) >= 2
    /\ doneOrder[1] = 2 /\ doneOrder[2] = 1
    /\ request[1] # request[2]

C9_Cancelled ==
    \A c \in Convs :
        raised[c] = Interrupt =>
            /\ pc[c] = "Failed"
            /\ outcome[c].kind = "raise"
            /\ c \notin Range(doneOrder)
C9_Step ==
    \A c \in Convs :
        /\ (pc[c] = "Generating" /\ raised[c] = NoError /\ raised'[c] = Interrupt)
           => /\ pc'[c] = "Failed"
              /\ conversion_history' = conversion_history
              /\ HistorySince(c)
              /\ streamed'[c] = streamed[c]
        /\ raised[c] = Interrupt
           => /\ pc'[c] = pc[c]
              /\ streamed'[c] = streamed[c]
              /\ fragments'[c] = fragments[c]

\* C9: the step that cancels a conversion while it generates ends it Failed
\* and leaves the history unchanged, which then is the one the call started
\* with (followed only by records of other conversions); a cancelled
\* conversion stays Failed, is never among the completed ones, and receives
\* no further fragment.
C9_CancelLeavesHistory == [](C9_Cancelled) /\ [][C9_Step]_vars

C9_Witness ==
    \E c \in Convs :
        /\ raised[c] = Interrupt
        /\ failedAt[c] = "Generating"
        /\ streamed[c] >= 1
        /\ conversion_history # <<>>

EmptyCorpus == "documents" \in attrs /\ documents = <<>>

\* C10: once load_documents has returned no documents, construction can only
\* fail, with the error of the empty corpus; nothing was split, embedded or
\* indexed, no history was created, the caller holds no converter and no
\* conversion was called.
C10_EmptyCorpusFailsConstruction ==
    EmptyCorpus =>
        /\ cpc \in {"loaded", "failed"}
        /\ cpc = "failed" => ctorError = LoadErrorEmpty
        /\ cpc = "loaded" => ctorError = NoError
        /\ attrs = {"documents"}
        /\ splits = <<>> /\ vectorstore = <<>> /\ indexBuilds = 0
        /\ conversion_history = <<>>
        /\ ~converter
        /\ \A c \in Convs : ~Started(c)

C10_Witness ==
    /\ EmptyCorpus
    /\ cpc = "failed"
    /\ ctorError = LoadErrorEmpty

Min(a, b) == IF a < b THEN a ELSE b
\* The conversions whose retrieval has returned.
Retrieved == {c \in Convs : pc[c] \in {"Composing", "Generating"}}
\* The positions in the index of the chunks conversion c retrieved, in the
\* order they were returned (a chunk is identified by its page).
PositionsOf(c) ==
    [i \in DOMAIN docs[c] |->
        CHOOSE p \in DOMAIN vectorstore : vectorstore[p] = docs[c][i]]

Composed == {c \in Convs : prompt[c] # NoPrompt}

\* C13: in the prompt of every conversion each of the four request slots
\* holds exactly its own field of the request (input_post, source_platform,
\* target_platform, and Yes or No for image_included) and the context slot
\* the joined contents of the chunks retrieved for the request.
C13_SlotsHoldFields ==
    \A c \in Composed :
        /\ prompt[c].input_post = <<request[c].caption>>
        /\ prompt[c].source_platform = <<"Instagram">>
        /\ prompt[c].target_platform = <<request[c].target>>
        /\ prompt[c].image_included =
              <<IF original_image[c] # NoImage THEN "Yes" ELSE "No">>
        /\ prompt[c].context = format_docs(Retrieve(vectorstore, InputOf(c)))

\* The context of no chunk is the empty text; the context of chunks is the
\* context of all but the last, a blank line, and the last chunk's content.
RECURSIVE ExpectedContext(_)
ExpectedContext(ds) ==
    IF ds = <<>> THEN <<>>
    ELSE IF Len(ds) = 1 THEN ds[1].page_content
    ELSE ExpectedContext(SubSeq(ds, 1, Len(ds) - 1))
             \o <<"\n", "\n">> \o ds[Len(ds)].page_content

\* C15: the context in a conversion's prompt is the contents of the chunks
\* it retrieved, in their ranked order, two newline characters between
\* consecutive chunks and nothing before the first or after the last; it is
\* the empty text when no chunk was retrieved.
C15_ContextJoin ==
    \A c \in Composed :
        /\ docs[c] = Retrieve(vectorstore, InputOf(c))
        /\ prompt[c].context = ExpectedContext(docs[c])
        /\ docs[c] = <<>> => prompt[c].context = <<>>
        /\ docs[c] # <<>> =>
              /\ prompt[c].context[1] # "\n"
              /\ prompt[c].context[Len(prompt[c].context)] # "\n"

\* Three chunks retrieved, the best of them not the first of the index.
C15_Witness ==
    \E c \in Composed :
        /\ Len(docs[c]) = 3
        /\ docs[c][1] # vectorstore[1]
        /\ Len(prompt[c].context) = 7

\* The conversions past the download: in the chain or completed.
PastDownload == {c \in Convs : pc[c] \in Active \cup {"Done"}}
\* The image the image-processing step owes for a downloaded image: fitted
\* into 2048 x 2048 and repainted for Facebook, untouched for Thread.
ExpectedImage(url, target) ==
    IF target = "Facebook"
    THEN [url |-> url, max_size |-> <<2048, 2048>>, format |-> None]
    ELSE [url |-> url, max_size |-> None, format |-> "JPEG"]
\* The image_included token in the prompt of conversion c.
ImageToken(c) == prompt[c].image_included[8]

\* C16: a conversion whose post carries a media_url is generated with
\* image_included Yes and, when it completes, has had the image of that url
\* processed for its target platform; a conversion whose post carries none
\* has no image processed.
C16_ImageAlwaysProcessed ==
    /\ \A c \in Composed :
          request[c].media_url # None => ImageToken(c) = "Yes"
    /\ \A c \in Succeeded :
          IF request[c].media_url # None
          THEN outcome[c].image =
                  ExpectedImage(request[c].media_url, request[c].target)
          ELSE outcome[c].image = NoImage

\* C16 as amended: the image is processed, and image_included is Yes, exactly
\* when the download of the post's media_url gave an image; a post without
\* media_url, or one whose download failed, is converted with image_included
\* No and no image is processed.
C16_DownloadedImageProcessed ==
    /\ \A c \in PastDownload :
          /\ request[c].media_url = None => original_image[c] = NoImage
          /\ original_image[c] # NoImage =>
                original_image[c].url = request[c].media_url
    /\ \A c \in Composed :
          ImageToken(c) = (IF original_image[c] # NoImage THEN "Yes" ELSE "No")
    /\ \A c \in Succeeded :
          IF original_image[c] # NoImage
          THEN outcome[c].image =
                  ExpectedImage(request[c].media_url, request[c].target)
          ELSE outcome[c].image = NoImage

\* One conversion completed with its image processed for Facebook, another
\* completed although the download of its image had failed.
C16_Witness ==
    \E c, d \in Succeeded :
        /\ request[c].target = "Facebook"
        /\ outcome[c].image # NoImage
        /\ request[d].media_url # None
        /\ original_image[d] = NoImage
        /\ outcome[d].image = NoImage

IsPrefix(h, g) == Len(h) <= Len(g) /\ SubSeq(g, 1, Len(h)) = h
C17_Step ==
    /\ IsPrefix(conversion_history, conversion_history')
    /\ conversion_history' # conversion_history =>
          \E c \in Convs :
              /\ pc[c] = "Generating" /\ pc'[c] = "Done"
              /\ outcome'[c].kind = "return"
              /\ conversion_history' =
                    conversion_history
                        \o << <<request[c].caption, "Instagram", request[c].target,
                                outcome'[c].text, request[c].media_url>> >>
    /\ (history_file' # history_file \/ conversions_table' # conversions_table)
          => conversion_history' = conversion_history
C17_Sinks ==
    /\ history_file # NotWritten =>
          /\ Len(history_file) =
                3 * Len(conversion_history)
                  + Cardinality({i \in DOMAIN conversion_history :
                                   conversion_history[i][5] # None})
          /\ \A i \in DOMAIN conversion_history :
                \E l \in DOMAIN history_file :
                    /\ history_file[l] =
                          <<"Source", "Instagram", conversion_history[i][1]>>
                    /\ history_file[l + 1] =
                          <<"Target", conversion_history[i][3],
                            conversion_history[i][4]>>
                    /\ Cardinality({k \in 1..l : history_file[k] = <<>>}) = i - 1
    /\ conversions_table # <<>> =>
          /\ Len(conversions_table) = Len(conversion_history)
          /\ \A i \in DOMAIN conversions_table :
                /\ conversions_table[i].id = i
                /\ <<conversions_table[i].input_post,
                      conversions_table[i].source_platform,
                      conversions_table[i].target_platform,
                      conversions_table[i].converted_post,
                      conversions_table[i].image_url>> = conversion_history[i]

\* C17: every step leaves the records the history holds in place, and a step
\* that changes the history is the completion of a conversion, appending that
\* conversion's record at the end; saving and uploading leave the history as
\* it is, and the file and the table hold its records, all of them, in the
\* order of the history.
C17_AppendOnlyHistory == [](C17_Sinks) /\ [][C17_Step]_vars

\* Two different records, saved and uploaded.
C17_Witness ==
    /\ Len(conversion_history) = 2
    /\ conversion_history[1] # conversion_history[2]
    /\ history_file # NotWritten
    /\ Len(conversions_table) = 2

\* The document the chunker was given, and the chunker's size and overlap.
Content == documents[1].page_content
Size == text_splitter.chunk_size
Overlap == text_splitter.chunk_overlap
\* ceil((L - O) / (C - O))
WindowCount(L, C, O) == (L - O + (C - O) - 1) \div (C - O)

ProtectedRoutes ==
    {"statistics", "my_page", "instagram_auth", "instagram_callback",
     "refresh_instagram_token", "fetch_posts", "fetch_instagram_stats",
     "link_thread_account", "check_thread_account", "fetch_thread_stats",
     "fetch_thread_posts", "upload_to_thread"}
\* The latest response is that of a protected route.
Protected == response.route \in ProtectedRoutes
\* A protected route touches the user store or an external API only for a
\* session with a user_id; without one it answers 401 or redirects to login.
C18_Guarded ==
    /\ (Protected /\ (response.store # "none" \/ response.api)) =>
            response.user # 0
    /\ (Protected /\ response.user = 0) =>
            /\ \/ response.status = 401
               \/ response.status = 302 /\ response.location = "login"
            /\ response.store = "none"
            /\ ~response.api
    /\ \A c \in Clients :
            session[c] # 0 => loginMatched[c] /\ HasUser(session[c])
\* A session gains its user_id in a login that matched and loses it in a
\* logout; a protected request without a user_id changes no user document
\* and no session.
C18_Step ==
    /\ \A c \in Clients :
          session'[c] # session[c] =>
              IF session'[c] = 0
              THEN response'.route = "logout"
              ELSE /\ response'.route = "login"
                   /\ loginMatched'[c]
    /\ (response'.route \in ProtectedRoutes /\ response'.user = 0) =>
          users' = users /\ session' = session

\* C18: a session-protected route reads or writes the user store or calls an
\* external API only while the session holds a user_id; the session holds a
\* user_id only between a login whose password matched the stored hash and
\* the next logout; a request without it gets 401 or a redirect to login and
\* changes nothing.
C18_SessionProtected == [](C18_Guarded) /\ [][C18_Step]_vars

\* A logged-in client's fetch_posts called the Instagram API while another
\* client has no session.
C18_Witness ==
    /\ response.route = "fetch_posts"
    /\ response.api
    /\ response.user # 0
    /\ \E c \in Clients : session[c] = 0
    /\ \E c \in Clients : session[c] # 0

\* C12: the embedding index is built once, at construction, and no
\* conversion request builds, replaces or changes an index.
C12_IndexBuiltOnce ==
    /\ indexBuilds <= 1
    /\ response.route = "convert" => response.builds = 0

\* The request has no JSON body.
NoJsonBody(b) == b.kind \in {"malformed", "notjson", "null"} \/ NoData(b)

\* C19: /convert answers 400 and calls neither convert_post nor the RAG
\* generation when the request has no JSON body or caption or targetPlatform
\* is missing or empty; every request gets one response, 200 with both
\* converted posts, 400, or 500 with the error text.
C19_ValidatesBeforeGenerating ==
    response.route = "convert" =>
        /\ (\/ NoJsonBody(response.request)
            \/ response.request.kind = "object"
                  /\ MissingFields(response.request)) =>
              /\ response.status = 400
              /\ ~response.basic
              /\ ~response.rag
        /\ response.status \in {200, 400, 500}
        /\ response.status = 200 =>
              /\ response.body[1] = "basicConvertedPost"
              /\ \E i \in DOMAIN response.body :
                    response.body[i] = "ragConvertedPost"
        /\ response.status # 200 => response.body[1] = "error"

====
